---- MODULE Spec2Model ----
(***************************************************************************)
(* Usage-quota ledger (src/usage-limits.js) and AI request orchestration   *)
(* (src/ai.js) of the humsafer backend, for one user.                      *)
(*                                                                         *)
(* Time is in milliseconds, as in the code (Date arithmetic).  Time 0 is a *)
(* local midnight and every local day has 24 hours.                        *)
(***************************************************************************)
EXTENDS Integers, Sequences, FiniteSets, TLC

\* ------------------------------------------------------------------ bounds
\* calls of incrementMessageCount in one behaviour of Spec; they may all
\* overlap
MaxIncrements == 2

\* ------------------------------------------------------- program constants
SecondMs == 1000
DayMs == 86400000
durationDays == 7
totalMessagesCap == 50
dailyMessagesCap == 15
cooldownSeconds == 3
Unlimited == -1
Null == -1
Undefined == -2

\* The small clock step: half the cooldown, a fractional number of seconds.
TickMs == (cooldownSeconds * SecondMs) \div 2
\* Small clock steps are taken up to this offset after a local midnight.
MaxOffsetMs == cooldownSeconds * SecondMs

Tiers == {"", "none", "free", "expired", "tier1", "tier2", "tier3", "premium"}

VARIABLES
    now,        \* the clock (ms)
    usageDoc,   \* users/{uid}/usage/messages
    userDoc,    \* users/{uid}
    inc,        \* the calls of incrementMessageCount in flight
    nInc,       \* calls of incrementMessageCount started so far
    horizon,    \* the time at which the clock stops
    lastCall,   \* what the ledger call that has just returned gave its caller
    keys,       \* the providers whose API key is configured
    req,        \* the request of POST /ai/process being served
    nReq,       \* requests started so far
    reply,      \* a text handed to shortenToTwoSentences, and what it gave
    aiLogs      \* users/{uid}/ai_logs: appends in flight, stored, failed

vars == <<now, usageDoc, userDoc, inc, nInc, horizon, lastCall,
          keys, req, nReq, reply, aiLogs>>

reqVars == <<keys, req, nReq, reply, aiLogs>>

\* ------------------------------------------------------------- the ledger
Max(a, b) == IF a >= b THEN a ELSE b

\* Math.ceil(a / b) for b > 0
CeilDiv(a, b) == IF a % b = 0 THEN a \div b ELSE (a \div b) + 1

getNextDayStart(t) == ((t \div DayMs) + 1) * DayMs

NoUsageDoc ==
    [exists |-> FALSE, totalMessages |-> 0, todayMessages |-> 0,
     lastMessageAt |-> Null, dailyResetAt |-> 0]

NoUserDoc ==
    [exists |-> FALSE, hasCreatedAt |-> FALSE, createdAt |-> 0, tier |-> ""]

ZeroUsage(t) ==
    [totalMessages |-> 0, todayMessages |-> 0,
     lastMessageAt |-> Null, dailyResetAt |-> getNextDayStart(t)]

\* getUserUsage without the daily reset of lines 42-49.
getUserUsageNoReset(doc, t, fail) ==
    IF fail \/ ~doc.exists
    THEN ZeroUsage(t)
    ELSE [totalMessages |-> doc.totalMessages,
          todayMessages |-> doc.todayMessages,
          lastMessageAt |-> doc.lastMessageAt,
          dailyResetAt |-> doc.dailyResetAt]

\* getUserUsage: doc is the stored usage document, t the time of the call,
\* fail says that the store read throws.
getUserUsage(doc, t, fail) ==
    IF fail \/ ~doc.exists
    THEN ZeroUsage(t)
    ELSE IF t >= doc.dailyResetAt
         THEN [totalMessages |-> doc.totalMessages, todayMessages |-> 0,
               lastMessageAt |-> doc.lastMessageAt,
               dailyResetAt |-> getNextDayStart(t)]
         ELSE [totalMessages |-> doc.totalMessages,
               todayMessages |-> doc.todayMessages,
               lastMessageAt |-> doc.lastMessageAt,
               dailyResetAt |-> doc.dailyResetAt]

\* checkFreeTierExpiry taking a failed read of the account as an expired
\* trial.
checkFreeTierExpiryFailClosed(udoc, t, fail) ==
    IF fail THEN [expired |-> TRUE, daysExpired |-> 0]
    ELSE IF ~udoc.exists
    THEN [expired |-> FALSE, daysExpired |-> Undefined]
    ELSE LET createdAt == IF udoc.hasCreatedAt THEN udoc.createdAt ELSE t
             ageMs == t - createdAt
         IN  IF ageMs > durationDays * DayMs
             THEN [expired |-> TRUE,
                   daysExpired |-> (ageMs - durationDays * DayMs) \div DayMs]
             ELSE [expired |-> FALSE, daysExpired |-> Undefined]

\* checkFreeTierExpiry: udoc is the stored account document.
checkFreeTierExpiry(udoc, t, fail) ==
    IF fail \/ ~udoc.exists
    THEN [expired |-> FALSE, daysExpired |-> Undefined]
    ELSE LET createdAt == IF udoc.hasCreatedAt THEN udoc.createdAt ELSE t
             ageMs == t - createdAt
         IN  IF ageMs > durationDays * DayMs
             THEN [expired |-> TRUE,
                   daysExpired |-> (ageMs - durationDays * DayMs) \div DayMs]
             ELSE [expired |-> FALSE, daysExpired |-> Undefined]

\* PAID_TIER_LIMITS[tier].dailyMessages
PaidDailyMessages(tier) == Unlimited

\* PAID_TIER_LIMITS without its tier1 entry.
HasPaidTierLimitNoTier1(tier) == tier \in {"tier2", "tier3"}

HasPaidTierLimit(tier) == tier \in {"tier1", "tier2", "tier3"}

IsFreeTierLevel(tier) == tier \in {"", "none", "free", "expired"}

Decision(allowed, reason, usage, remTotal, remToday, wait, expired) ==
    [allowed |-> allowed, reason |-> reason, usage |-> usage,
     remainingTotal |-> remTotal, remainingToday |-> remToday,
     waitSeconds |-> wait, expired |-> expired, daysExpired |-> Undefined]

\* The free-tier rules with the total cap compared by > instead of >=.
checkFreeLimitCapOffByOne(usage, expiry, t) ==
    IF expiry.expired
    THEN Decision(FALSE, "FreeTierExpired", usage, 0, 0, Undefined, TRUE)
    ELSE IF usage.totalMessages > totalMessagesCap
    THEN Decision(FALSE, "TotalCapReached", usage, 0,
                  Max(0, dailyMessagesCap - usage.todayMessages),
                  Undefined, FALSE)
    ELSE IF usage.todayMessages >= dailyMessagesCap
    THEN Decision(FALSE, "DailyCapReached", usage,
                  totalMessagesCap - usage.totalMessages, 0, Undefined, FALSE)
    ELSE Decision(TRUE, "None", usage,
                  totalMessagesCap - usage.totalMessages - 1,
                  dailyMessagesCap - usage.todayMessages - 1,
                  Undefined, FALSE)

\* The free-tier rules with the wait rounded down instead of up.
checkFreeLimitFloorWait(usage, expiry, t) ==
    IF expiry.expired
    THEN Decision(FALSE, "FreeTierExpired", usage, 0, 0, Undefined, TRUE)
    ELSE IF usage.totalMessages >= totalMessagesCap
    THEN Decision(FALSE, "TotalCapReached", usage, 0,
                  Max(0, dailyMessagesCap - usage.todayMessages),
                  Undefined, FALSE)
    ELSE IF usage.todayMessages >= dailyMessagesCap
    THEN Decision(FALSE, "DailyCapReached", usage,
                  totalMessagesCap - usage.totalMessages, 0, Undefined, FALSE)
    ELSE IF /\ usage.lastMessageAt # Null
            /\ t - usage.lastMessageAt < cooldownSeconds * SecondMs
    THEN Decision(FALSE, "CooldownActive", usage,
                  totalMessagesCap - usage.totalMessages,
                  dailyMessagesCap - usage.todayMessages,
                  (cooldownSeconds * SecondMs - (t - usage.lastMessageAt))
                      \div SecondMs,
                  FALSE)
    ELSE Decision(TRUE, "None", usage,
                  totalMessagesCap - usage.totalMessages - 1,
                  dailyMessagesCap - usage.todayMessages - 1,
                  Undefined, FALSE)

\* The free-tier rules with the daily cap tested before the total cap.
checkFreeLimitDailyFirst(usage, expiry, t) ==
    IF expiry.expired
    THEN Decision(FALSE, "FreeTierExpired", usage, 0, 0, Undefined, TRUE)
    ELSE IF usage.todayMessages >= dailyMessagesCap
    THEN Decision(FALSE, "DailyCapReached", usage,
                  totalMessagesCap - usage.totalMessages, 0, Undefined, FALSE)
    ELSE IF usage.totalMessages >= totalMessagesCap
    THEN Decision(FALSE, "TotalCapReached", usage, 0,
                  Max(0, dailyMessagesCap - usage.todayMessages),
                  Undefined, FALSE)
    ELSE IF /\ usage.lastMessageAt # Null
            /\ t - usage.lastMessageAt < cooldownSeconds * SecondMs
    THEN Decision(FALSE, "CooldownActive", usage,
                  totalMessagesCap - usage.totalMessages,
                  dailyMessagesCap - usage.todayMessages,
                  CeilDiv(cooldownSeconds * SecondMs
                            - (t - usage.lastMessageAt), SecondMs),
                  FALSE)
    ELSE Decision(TRUE, "None", usage,
                  totalMessagesCap - usage.totalMessages - 1,
                  dailyMessagesCap - usage.todayMessages - 1,
                  Undefined, FALSE)

\* The free-tier rules of checkMessageLimit.
checkFreeLimit(usage, expiry, t) ==
    IF expiry.expired
    THEN Decision(FALSE, "FreeTierExpired", usage, 0, 0, Undefined, TRUE)
    ELSE IF usage.totalMessages >= totalMessagesCap
    THEN Decision(FALSE, "TotalCapReached", usage, 0,
                  Max(0, dailyMessagesCap - usage.todayMessages),
                  Undefined, FALSE)
    ELSE IF usage.todayMessages >= dailyMessagesCap
    THEN Decision(FALSE, "DailyCapReached", usage,
                  totalMessagesCap - usage.totalMessages, 0, Undefined, FALSE)
    ELSE IF /\ usage.lastMessageAt # Null
            /\ t - usage.lastMessageAt < cooldownSeconds * SecondMs
    THEN Decision(FALSE, "CooldownActive", usage,
                  totalMessagesCap - usage.totalMessages,
                  dailyMessagesCap - usage.todayMessages,
                  CeilDiv(cooldownSeconds * SecondMs
                            - (t - usage.lastMessageAt), SecondMs),
                  FALSE)
    ELSE Decision(TRUE, "None", usage,
                  totalMessagesCap - usage.totalMessages - 1,
                  dailyMessagesCap - usage.todayMessages - 1,
                  Undefined, FALSE)

\* checkMessageLimit(uid, tierLevel): failUsage and failUser say which store
\* reads throw.  A tier that is neither free nor in PAID_TIER_LIMITS falls
\* through to checkMessageLimit(uid, 'free').
checkMessageLimit(doc, udoc, tier, t, failUsage, failUser) ==
    LET usage == getUserUsage(doc, t, failUsage)
        expiry == checkFreeTierExpiry(udoc, t, failUser)
    IN  IF ~IsFreeTierLevel(tier) /\ HasPaidTierLimit(tier)
        THEN IF /\ PaidDailyMessages(tier) > 0
                /\ usage.todayMessages >= PaidDailyMessages(tier)
             THEN Decision(FALSE, "DailyCapReachedPaid", usage,
                           Unlimited, 0, Undefined, FALSE)
             ELSE Decision(TRUE, "None", usage,
                           Undefined, Undefined, Undefined, FALSE)
        ELSE checkFreeLimit(usage, expiry, t)

\* getRemainingQuota(uid, tierLevel)
getRemainingQuota(doc, tier, t, failUsage) ==
    LET usage == getUserUsage(doc, t, failUsage)
    IN  IF tier \notin {"", "none", "free"}
        THEN [totalRemaining |-> Unlimited, todayRemaining |-> Unlimited,
              unlimited |-> TRUE]
        ELSE [totalRemaining |->
                  Max(0, totalMessagesCap - usage.totalMessages),
              todayRemaining |->
                  Max(0, dailyMessagesCap - usage.todayMessages),
              unlimited |-> FALSE]

\* The usage document written with the dailyResetAt that was read, whatever
\* the time of the write.
IncrementedDocKeepingReset(usage, t) ==
    [exists |-> TRUE,
     totalMessages |-> usage.totalMessages + 1,
     todayMessages |-> IF t >= usage.dailyResetAt
                       THEN 1 ELSE usage.todayMessages + 1,
     lastMessageAt |-> t,
     dailyResetAt |-> usage.dailyResetAt]

\* The write of incrementMessageCount counting the message for the day
\* only.
IncrementedDocTodayOnly(usage, t) ==
    [exists |-> TRUE,
     totalMessages |-> usage.totalMessages,
     todayMessages |-> IF t >= usage.dailyResetAt
                       THEN 1 ELSE usage.todayMessages + 1,
     lastMessageAt |-> t,
     dailyResetAt |-> IF t >= usage.dailyResetAt
                      THEN getNextDayStart(t) ELSE usage.dailyResetAt]

\* The usage document incrementMessageCount writes at time t from the usage
\* it read earlier.
IncrementedDoc(usage, t) ==
    [exists |-> TRUE,
     totalMessages |-> usage.totalMessages + 1,
     todayMessages |-> IF t >= usage.dailyResetAt
                       THEN 1 ELSE usage.todayMessages + 1,
     lastMessageAt |-> t,
     dailyResetAt |-> IF t >= usage.dailyResetAt
                      THEN getNextDayStart(t) ELSE usage.dailyResetAt]

\* userRef.set({createdAt, tier: 'free', ...}, {merge: true})
InitializedUserDoc(t) ==
    [exists |-> TRUE, hasCreatedAt |-> TRUE, createdAt |-> t, tier |-> "free"]

\* ------------------------------------------------------------------ state
Slots == 1..MaxIncrements

IdleSlot == [pc |-> "idle", usage |-> ZeroUsage(0), seen |-> NoUsageDoc,
             readFailed |-> FALSE]

NoCall == [op |-> "none"]

\* States the program reaches, each with the time at which its clock stops:
\* a new user; a user near both caps on the fourth day; a user whose last
\* messages were sent on the first day, at the end of the seventh day.
NewUser == [now |-> 0, until |-> DayMs,
            usageDoc |-> NoUsageDoc, userDoc |-> NoUserDoc]

InitStates ==
    { NewUser,
      [now |-> 3 * DayMs + TickMs, until |-> 4 * DayMs,
       usageDoc |-> [exists |-> TRUE, totalMessages |-> 49,
                     todayMessages |-> 14, lastMessageAt |-> 3 * DayMs,
                     dailyResetAt |-> 4 * DayMs],
       userDoc |-> InitializedUserDoc(0)],
      [now |-> 7 * DayMs, until |-> 8 * DayMs,
       usageDoc |-> [exists |-> TRUE, totalMessages |-> 3,
                     todayMessages |-> 3, lastMessageAt |-> 3000,
                     dailyResetAt |-> DayMs],
       userDoc |-> InitializedUserDoc(0)] }

Providers == {"gemini", "openai", "grok"}

NoReq == [pc |-> "idle"]

\* users/{uid}/ai_logs with no entry, and no append in flight.
NoLogs == [pending |-> 0, stored |-> 0, failed |-> 0]

InitText(s, k, t) ==
    /\ keys = k
    /\ reply = [text |-> t, short |-> <<>>, done |-> FALSE]
    /\ aiLogs = NoLogs
    /\ req = NoReq
    /\ nReq = 0
    /\ now = s.now
    /\ usageDoc = s.usageDoc
    /\ userDoc = s.userDoc
    /\ inc = [i \in Slots |-> IdleSlot]
    /\ nInc = 0
    /\ horizon = s.until
    /\ lastCall = NoCall

InitWith(s, k) == InitText(s, k, <<>>)

InitFrom(s) == InitWith(s, Providers)

Init == \E s \in InitStates : InitFrom(s)

\* ---------------------------------------------------------------- actions
\* Small clock steps stay near the local midnight before them.
NearMidnight == (now + TickMs) % DayMs <= MaxOffsetMs

\* The clock advances by d.
Tick(d) ==
    /\ lastCall = NoCall
    /\ now + d <= horizon
    /\ now' = now + d
    /\ UNCHANGED <<usageDoc, userDoc, inc, nInc, horizon, lastCall, reqVars>>

\* The clock advances to the next local midnight.
NextMidnight ==
    /\ lastCall = NoCall
    /\ getNextDayStart(now) <= horizon
    /\ now' = getNextDayStart(now)
    /\ UNCHANGED <<usageDoc, userDoc, inc, nInc, horizon, lastCall, reqVars>>

\* A checkMessageLimit that records the message it allows.
CheckRecording(tier, failUsage, failUser) ==
    /\ lastCall = NoCall
    /\ lastCall' = [op |-> "check", tier |-> tier, at |-> now,
                    failUsage |-> failUsage, failUser |-> failUser,
                    decision |-> checkMessageLimit(usageDoc, userDoc, tier,
                                                   now, failUsage, failUser)]
    /\ usageDoc' = IncrementedDoc(getUserUsage(usageDoc, now, failUsage), now)
    /\ UNCHANGED <<now, userDoc, inc, nInc, horizon, reqVars>>

\* checkMessageLimit(uid, tier), called directly
Check(tier, failUsage, failUser) ==
    /\ lastCall = NoCall
    /\ lastCall' = [op |-> "check", tier |-> tier, at |-> now,
                    failUsage |-> failUsage, failUser |-> failUser,
                    decision |-> checkMessageLimit(usageDoc, userDoc, tier,
                                                   now, failUsage, failUser)]
    /\ UNCHANGED <<now, usageDoc, userDoc, inc, nInc, horizon, reqVars>>

\* A getRemainingQuota that stores the daily reset it computes.
RemainingQuotaPersistingReset(tier, failUsage) ==
    /\ lastCall = NoCall
    /\ lastCall' = [op |-> "quota", tier |-> tier, failUsage |-> failUsage,
                    quota |-> getRemainingQuota(usageDoc, tier, now,
                                                failUsage)]
    /\ usageDoc' = IF usageDoc.exists /\ now >= usageDoc.dailyResetAt
                   THEN [usageDoc EXCEPT !.todayMessages = 0,
                                         !.dailyResetAt = getNextDayStart(now)]
                   ELSE usageDoc
    /\ UNCHANGED <<now, userDoc, inc, nInc, horizon, reqVars>>

\* getRemainingQuota(uid, tier), called directly
RemainingQuota(tier, failUsage) ==
    /\ lastCall = NoCall
    /\ lastCall' = [op |-> "quota", tier |-> tier, failUsage |-> failUsage,
                    quota |-> getRemainingQuota(usageDoc, tier, now,
                                                failUsage)]
    /\ UNCHANGED <<now, usageDoc, userDoc, inc, nInc, horizon, reqVars>>

\* incrementMessageCount(uid) is called: the usage read is issued.
IncStart(i) ==
    /\ lastCall = NoCall
    /\ inc[i].pc = "idle"
    /\ \A j \in 1..(i - 1) : inc[j].pc # "idle"
    /\ nInc' = nInc + 1
    /\ inc' = [inc EXCEPT ![i] = [IdleSlot EXCEPT !.pc = "getUsage"]]
    /\ UNCHANGED <<now, usageDoc, userDoc, horizon, lastCall, reqVars>>

\* incrementMessageCount: getUserUsage answers (it swallows a failed read).
IncGetUsage(i, fail) ==
    /\ lastCall = NoCall
    /\ inc[i].pc = "getUsage"
    /\ inc' = [inc EXCEPT ![i] =
                  [pc |-> "getUser",
                   usage |-> getUserUsage(usageDoc, now, fail),
                   seen |-> usageDoc, readFailed |-> fail]]
    /\ UNCHANGED <<now, usageDoc, userDoc, nInc, horizon, lastCall, reqVars>>

\* incrementMessageCount: userRef.get(); a failure is thrown to the caller.
IncGetUser(i, fail) ==
    /\ lastCall = NoCall
    /\ inc[i].pc = "getUser"
    /\ inc' = [inc EXCEPT ![i] =
                  IF fail THEN IdleSlot
                  ELSE [@ EXCEPT !.pc = IF userDoc.exists
                                        THEN "write" ELSE "createUser"]]
    /\ lastCall' = IF fail THEN [op |-> "incrementThrew"] ELSE NoCall
    /\ UNCHANGED <<now, usageDoc, userDoc, nInc, horizon, reqVars>>

\* incrementMessageCount: userRef.set({createdAt, tier: 'free'}, merge)
IncCreateUser(i, fail) ==
    /\ lastCall = NoCall
    /\ inc[i].pc = "createUser"
    /\ inc' = [inc EXCEPT ![i] =
                  IF fail THEN IdleSlot ELSE [@ EXCEPT !.pc = "write"]]
    /\ userDoc' = IF fail THEN userDoc ELSE InitializedUserDoc(now)
    /\ lastCall' = IF fail THEN [op |-> "incrementThrew"] ELSE NoCall
    /\ UNCHANGED <<now, usageDoc, nInc, horizon, reqVars>>

\* incrementMessageCount: usageRef.set(...) and the return.  The result
\* keeps what the step saw: the document it replaced, whether its own usage
\* read had failed, whether the document changed since that read.
IncWrite(i, fail) ==
    /\ lastCall = NoCall
    /\ inc[i].pc = "write"
    /\ usageDoc' = IF fail THEN usageDoc
                   ELSE IncrementedDoc(inc[i].usage, now)
    /\ inc' = [inc EXCEPT ![i] = IdleSlot]
    /\ lastCall' = IF fail THEN [op |-> "incrementThrew"]
                   ELSE [op |-> "increment",
                         readFailed |-> inc[i].readFailed,
                         overlapped |-> inc[i].seen # usageDoc,
                         before |-> usageDoc,
                         readResetAt |-> inc[i].usage.dailyResetAt,
                         totalMessages |-> inc[i].usage.totalMessages + 1]
    /\ UNCHANGED <<now, userDoc, nInc, horizon, reqVars>>

\* The caller has taken the result of the call that returned.
Return ==
    /\ lastCall # NoCall
    /\ lastCall' = NoCall
    /\ UNCHANGED <<now, usageDoc, userDoc, inc, nInc, horizon, reqVars>>

\* The ledger under any interleaving of its calls, with store failures.
Next ==
    \/ NearMidnight /\ Tick(TickMs)
    \/ NextMidnight
    \/ \E tier \in Tiers, failUsage \in BOOLEAN, failUser \in BOOLEAN :
           Check(tier, failUsage, failUser)
    \/ \E tier \in Tiers, failUsage \in BOOLEAN :
           RemainingQuota(tier, failUsage)
    \/ \E i \in Slots : nInc < MaxIncrements /\ IncStart(i)
    \/ \E i \in Slots, fail \in BOOLEAN : IncGetUsage(i, fail)
    \/ \E i \in Slots, fail \in BOOLEAN : IncGetUser(i, fail)
    \/ \E i \in Slots, fail \in BOOLEAN : IncCreateUser(i, fail)
    \/ \E i \in Slots, fail \in BOOLEAN : IncWrite(i, fail)
    \/ Return

Spec == Init /\ [][Next]_vars

\* ------------------------------------------------- POST /ai/process
\* The request paths: processMessage, and processMessageStream for a request
\* that asks for a streamed response.
Paths == {"json", "stream"}

\* The tierLevel values of request bodies: absent, free, and the paid tiers.
ReqTiers == {"", "free", "tier1", "tier2", "tier3"}

\* 'night' is the restricted mode; "general" stands for every other mode.
Modes == {"night", "general"}

\* What a provider's API does with a call: it answers with text, with text
\* that is only whitespace, with no text, or the call throws (a transport
\* error, an HTTP error, an abort on timeout).
Outcomes == {"text", "blank", "empty", "throw"}

NightTiers == {"tier2", "tier3"}

NightRefusal == "refusal"

\* The text provider p generated.
TextOf(p) ==
    CASE p = "gemini" -> "text of gemini"
      [] p = "geminiVision" -> "text of geminiVision"
      [] p = "openai" -> "text of openai"
      [] p = "grok" -> "text of grok"

\* What the wrapper of provider p (callGemini, callGeminiWithAttachments,
\* callOpenAI, callGrok) returns to processMessage: every wrapper catches
\* what its API call throws and returns ''; callOpenAI alone hands back a
\* text of whitespace as it is.
ProviderReturn(p, outcome) ==
    IF outcome = "text" THEN TextOf(p)
    ELSE IF p = "openai" /\ outcome = "blank" THEN "blank"
    ELSE ""

\* !result
IsEmpty(result) == result = ""

\* !result || result.trim() === ''
IsBlank(result) == result \in {"", "blank"}

KeyOf(p) == IF p = "geminiVision" THEN "gemini" ELSE p

\* The provider blocks of a request in the order of the code.
Blocks(r) ==
    LET first == IF r.hasAttachments THEN "geminiVision" ELSE "gemini"
    IN  IF r.path = "json"
        THEN IF r.mode = "night"
             THEN IF r.tier \in NightTiers
                  THEN <<"grok", "openai">> ELSE <<>>
             ELSE <<first, "openai", "grok">>
        ELSE IF r.mode = "night"
             THEN <<first, "openai", "grok">>
             ELSE <<first, "openai">>

\* The condition of block k without its test of the result.
BlockRunsAnyResult(r, k, ks) == KeyOf(Blocks(r)[k]) \in ks

\* The condition of block k without its test of the key.
BlockRunsAnyKey(r, k, ks) == IsEmpty(r.result)

\* The condition of block k: its key is configured and no earlier block
\* has left a result (if (!result && hasKey)).
BlockRuns(r, k, ks) == KeyOf(Blocks(r)[k]) \in ks /\ IsEmpty(r.result)

\* The next block that calls its provider, 0 when none does.
NextBlock(r, ks) ==
    LET c == {k \in (r.stage + 1)..Len(Blocks(r)) : BlockRuns(r, k, ks)}
    IN  IF c = {} THEN 0 ELSE CHOOSE k \in c : \A j \in c : k <= j

UnsetDecision ==
    Decision(TRUE, "unset", ZeroUsage(0), Undefined, Undefined, Undefined,
             FALSE)

NoQuota == [totalRemaining |-> Undefined, todayRemaining |-> Undefined,
            unlimited |-> FALSE]

Terminal == {"DENY", "FAIL", "RESPOND"}

\* What the keywords of the message select (lines 709-743): the Google Meet
\* handler, the scheduling handler, the expense handler, or none of them.
Intents == {"none", "meet", "schedule", "expense"}

\* A request arrives; tier = tierLevel || 'free'.  fast and the message's
\* intent are read from the body with the rest.
ReqArrives(path, tierLevel, mode, voiceChat, hasAttachments, fast, intent) ==
    /\ req.pc = "idle"
    /\ req' = [pc |-> IF path = "json" THEN "check" ELSE "chain",
               path |-> path,
               tierLevel |-> tierLevel,
               tier |-> IF tierLevel = "" THEN "free" ELSE tierLevel,
               mode |-> mode,
               voiceChat |-> voiceChat,
               hasAttachments |-> hasAttachments,
               fast |-> fast,
               intent |-> intent,
               checked |-> FALSE,
               limitCheck |-> UnsetDecision,
               stage |-> 0,
               calls |-> <<>>,
               outs |-> <<>>,
               timer |-> "none",
               result |-> "",
               quota |-> NoQuota,
               cancelled |-> FALSE,
               listening |-> FALSE,
               aborted |-> FALSE,
               written |-> 0,
               trailer |-> FALSE,
               status |-> 0]
    /\ nReq' = nReq + 1
    /\ UNCHANGED <<now, usageDoc, userDoc, inc, nInc, horizon, lastCall, keys,
                   reply, aiLogs>>

\* A request whose message no intent handler takes, without the fast flag.
ReqStart(path, tierLevel, mode, voiceChat, hasAttachments) ==
    ReqArrives(path, tierLevel, mode, voiceChat, hasAttachments, FALSE,
               "none")

\* The usage limits check with a denial ending a voice chat request too.
ReqCheckDenyingVoice(failUsage, failUser) ==
    /\ req.pc = "check"
    /\ LET d == checkMessageLimit(usageDoc, userDoc, req.tier, now,
                                  failUsage, failUser)
           deny == ~d.allowed
       IN  req' = [req EXCEPT !.checked = TRUE,
                              !.limitCheck = d,
                              !.pc = IF deny THEN "DENY"
                                     ELSE IF req.intent # "none"
                                     THEN "intent" ELSE "chain",
                              !.status = IF deny THEN 429 ELSE 0]
    /\ UNCHANGED <<now, usageDoc, userDoc, inc, nInc, horizon, lastCall,
                   keys, nReq, reply, aiLogs>>

\* processMessage: the usage limits check; a denial ends a request that is
\* not a voice chat with status 429.
ReqCheck(failUsage, failUser) ==
    /\ req.pc = "check"
    /\ LET d == checkMessageLimit(usageDoc, userDoc, req.tier, now,
                                  failUsage, failUser)
           deny == ~req.voiceChat /\ ~d.allowed
       IN  req' = [req EXCEPT !.checked = TRUE,
                              !.limitCheck = d,
                              !.pc = IF deny THEN "DENY"
                                     ELSE IF req.intent # "none"
                                     THEN "intent" ELSE "chain",
                              !.status = IF deny THEN 429 ELSE 0]
    /\ UNCHANGED <<now, usageDoc, userDoc, inc, nInc, horizon, lastCall,
                   keys, nReq, reply, aiLogs>>

\* The handlers that ask Gemini for the details of the event.
ExtractingIntents == {"meet", "schedule"}

\* handleGoogleMeetIntent, handleSchedulingIntent: if (GOOGLE_AI_API_KEY)
\* aiResponse = await callGemini(extractionPrompt).  handleExpenseIntent
\* parses the message itself.
ReqIntentExtract ==
    /\ req.pc = "intent"
    /\ LET ask == req.intent \in ExtractingIntents /\ "gemini" \in keys
       IN  req' = [req EXCEPT
                     !.pc = IF ask THEN "extract" ELSE "store",
                     !.calls = IF ask THEN Append(@, "gemini") ELSE @]
    /\ UNCHANGED <<now, usageDoc, userDoc, inc, nInc, horizon, lastCall,
                   keys, nReq, reply, aiLogs>>

\* The extraction call resolves; what cannot be parsed is replaced by the
\* handler's own parsing of the message.
ReqIntentExtracted(outcome) ==
    /\ req.pc = "extract"
    /\ req' = [req EXCEPT !.pc = "store", !.outs = Append(@, outcome)]
    /\ UNCHANGED <<now, usageDoc, userDoc, inc, nInc, horizon, lastCall,
                   keys, nReq, reply, aiLogs>>

\* The handler's store writes (the entry, then the ai_logs entry) and its
\* response.  When a write throws, handleExpenseIntent answers with its
\* fallback text, and the other two handlers return processMessage(req,
\* res): the same request enters processMessage again from its first line.
\* No handler calls incrementMessageCount.
ReqIntentStore(fail) ==
    /\ req.pc = "store"
    /\ req' = IF fail /\ req.intent \in ExtractingIntents
              THEN [req EXCEPT !.pc = "check",
                               !.checked = FALSE,
                               !.limitCheck = UnsetDecision,
                               !.calls = <<>>,
                               !.outs = <<>>]
              ELSE [req EXCEPT !.pc = "RESPOND",
                               !.result = IF fail THEN "fallback"
                                          ELSE "done",
                               !.status = 200]
    /\ aiLogs' = IF fail THEN aiLogs ELSE [aiLogs EXCEPT !.stored = @ + 1]
    /\ UNCHANGED <<now, usageDoc, userDoc, inc, nInc, horizon, lastCall,
                   keys, nReq, reply>>

\* The provider whose call was made last.
LastCall(r) == r.calls[Len(r.calls)]

\* The wrappers that arm a timer for their call: callGrok alone has
\* setTimeout(() => controller.abort(), 6000).
TimedProviders == {"grok"}

\* The timer of the attempt in flight, "none" for a wrapper without one.
AttemptTimer(r) == IF LastCall(r) \in TimedProviders THEN r.timer ELSE "none"

\* The provider blocks without their awaits: a block calls its provider
\* while the call of an earlier block is still pending.
ReqInvokeRacing ==
    /\ req.pc \in {"chain", "await"}
    /\ NextBlock(req, keys) # 0
    /\ LET k == NextBlock(req, keys)
           p == Blocks(req)[k]
       IN  req' = [req EXCEPT !.pc = "await",
                              !.stage = k,
                              !.calls = Append(@, p),
                              !.timer = IF p \in TimedProviders
                                        THEN "armed" ELSE @]
    /\ UNCHANGED <<now, usageDoc, userDoc, inc, nInc, horizon, lastCall,
                   keys, nReq, reply, aiLogs>>

\* The next provider block whose condition holds calls its provider;
\* callGrok arms its timer before the fetch.
ReqInvoke ==
    /\ req.pc = "chain"
    /\ NextBlock(req, keys) # 0
    /\ LET k == NextBlock(req, keys)
           p == Blocks(req)[k]
       IN  req' = [req EXCEPT !.pc = "await",
                              !.stage = k,
                              !.calls = Append(@, p),
                              !.timer = IF p \in TimedProviders
                                        THEN "armed" ELSE @]
    /\ UNCHANGED <<now, usageDoc, userDoc, inc, nInc, horizon, lastCall,
                   keys, nReq, reply, aiLogs>>

\* callGrok: the fetch resolves with the response's status line and
\* headers, and clearTimeout(timeout) runs before the body is read.
ReqHeaders ==
    /\ req.pc = "await"
    /\ LastCall(req) \in TimedProviders
    /\ req' = [req EXCEPT !.pc = "body", !.timer = "cleared"]
    /\ UNCHANGED <<now, usageDoc, userDoc, inc, nInc, horizon, lastCall,
                   keys, nReq, reply, aiLogs>>

\* The provider call in flight resolves.  In callGrok a text, a blank or an
\* empty answer comes from the body (resp.text() of an HTTP error,
\* resp.json()), after the fetch has resolved; what the fetch or the read
\* of the body throws is caught and '' returned, and the catch block does
\* not touch the timer.
ReqResolve(outcome) ==
    /\ req.pc \in {"await", "body"}
    /\ (req.pc = "await" /\ LastCall(req) \in TimedProviders) =>
           outcome = "throw"
    /\ req.pc = "body" => LastCall(req) \in TimedProviders
    /\ req' = [req EXCEPT
                 !.pc = "chain",
                 !.outs = Append(@, outcome),
                 !.result = ProviderReturn(LastCall(req), outcome)]
    /\ UNCHANGED <<now, usageDoc, userDoc, inc, nInc, horizon, lastCall,
                   keys, nReq, reply, aiLogs>>

\* The timer of callGrok fires while the fetch is pending: the controller
\* aborts it, the fetch rejects with AbortError, and the catch block logs
\* the timeout and returns ''.
ReqTimeout ==
    /\ req.pc = "await"
    /\ AttemptTimer(req) = "armed"
    /\ req' = [req EXCEPT !.pc = "chain",
                          !.outs = Append(@, "timeout"),
                          !.timer = "fired",
                          !.result = ""]
    /\ UNCHANGED <<now, usageDoc, userDoc, inc, nInc, horizon, lastCall,
                   keys, nReq, reply, aiLogs>>

\* A timer that callGrok left armed fires after the call has returned; its
\* callback aborts a controller nobody listens to.
TimerLapse ==
    /\ req.pc \notin {"idle", "await"}
    /\ req.timer = "armed"
    /\ req' = [req EXCEPT !.timer = "fired"]
    /\ UNCHANGED <<now, usageDoc, userDoc, inc, nInc, horizon, lastCall,
                   keys, nReq, reply, aiLogs>>

\* The end of the chain without the test of lines 894-905 for an empty
\* result.
ReqChainEndAnyResult ==
    /\ req.pc = "chain"
    /\ NextBlock(req, keys) = 0
    /\ LET result == IF /\ req.path = "json"
                        /\ req.mode = "night"
                        /\ req.tier \notin NightTiers
                     THEN NightRefusal ELSE req.result
       IN  req' = [req EXCEPT !.result = result,
                              !.stage = Len(Blocks(req)),
                              !.pc = "quota"]
    /\ UNCHANGED <<now, usageDoc, userDoc, inc, nInc, horizon, lastCall,
                   keys, nReq, reply, aiLogs>>

\* No block is left to run: processMessage puts the refusal for night mode
\* below tier 2 and ends with status 500 on an empty result.
ReqChainEnd ==
    /\ req.pc = "chain"
    /\ NextBlock(req, keys) = 0
    /\ LET result == IF /\ req.path = "json"
                        /\ req.mode = "night"
                        /\ req.tier \notin NightTiers
                     THEN NightRefusal ELSE req.result
           fail == req.path = "json" /\ IsBlank(result)
       IN  req' = [req EXCEPT !.result = result,
                              !.stage = Len(Blocks(req)),
                              !.pc = IF fail THEN "FAIL" ELSE "quota",
                              !.status = IF fail THEN 500 ELSE 0]
    /\ UNCHANGED <<now, usageDoc, userDoc, inc, nInc, horizon, lastCall,
                   keys, nReq, reply, aiLogs>>

\* quota = await getRemainingQuota(uid, tier)
ReqQuota(failUsage) ==
    /\ req.pc = "quota"
    /\ req' = [req EXCEPT
                 !.pc = "send",
                 !.quota = getRemainingQuota(usageDoc, req.tier, now,
                                             failUsage)]
    /\ UNCHANGED <<now, usageDoc, userDoc, inc, nInc, horizon, lastCall,
                   keys, nReq, reply, aiLogs>>

\* processMessage sends the response, then calls incrementMessageCount
\* and appends to ai_logs, awaiting neither.
ReqRespond ==
    /\ req.pc = "send"
    /\ req.path = "json"
    /\ req' = [req EXCEPT !.pc = "RESPOND", !.status = 200]
    /\ \E i \in Slots :
          /\ inc[i].pc = "idle"
          /\ \A j \in 1..(i - 1) : inc[j].pc # "idle"
          /\ inc' = [inc EXCEPT ![i] = [IdleSlot EXCEPT !.pc = "getUsage"]]
    /\ nInc' = nInc + 1
    /\ aiLogs' = [aiLogs EXCEPT !.pending = @ + 1]
    /\ UNCHANGED <<now, usageDoc, userDoc, horizon, lastCall, keys, nReq,
                   reply>>

\* An append to ai_logs whose failure schedules the append again.
LogAppendRetrying(fail) ==
    /\ aiLogs.pending > 0
    /\ aiLogs' = IF fail
                 THEN [aiLogs EXCEPT !.failed = @ + 1]
                 ELSE [aiLogs EXCEPT !.pending = @ - 1, !.stored = @ + 1]
    /\ UNCHANGED <<now, usageDoc, userDoc, inc, nInc, horizon, lastCall,
                   keys, req, nReq, reply>>

\* The append to ai_logs in flight settles: the entry is stored, or the
\* append fails and its catch logs the error.
LogAppend(fail) ==
    /\ aiLogs.pending > 0
    /\ aiLogs' = IF fail
                 THEN [aiLogs EXCEPT !.pending = @ - 1, !.failed = @ + 1]
                 ELSE [aiLogs EXCEPT !.pending = @ - 1, !.stored = @ + 1]
    /\ UNCHANGED <<now, usageDoc, userDoc, inc, nInc, horizon, lastCall,
                   keys, req, nReq, reply>>

\* The clauses processMessageStream splits a generated text into; a text
\* of two clauses stands for every text.
ClausesOf(result) == <<"clause 1", "clause 2">>

\* processMessageStream after the quota: the headers, the listeners for
\* 'aborted' and 'close' of the request, res.end('') for an empty result,
\* else the first round of the loop, which runs before any event can be
\* delivered: it writes the first clause and sleeps.
ReqStreamOpen ==
    /\ req.pc = "send"
    /\ req.path = "stream"
    /\ req' = IF IsBlank(req.result)
              THEN [req EXCEPT !.pc = "FAIL", !.listening = TRUE,
                               !.status = 200]
              ELSE [req EXCEPT !.pc = "stream", !.listening = TRUE,
                               !.written = 1, !.status = 200]
    /\ UNCHANGED <<now, usageDoc, userDoc, inc, nInc, horizon, lastCall,
                   keys, nReq, reply, aiLogs>>

\* The client cancels the streamed response while the handler awaits a
\* provider, the quota or the pause after a clause.  The request emits
\* 'aborted' and 'close' once, to the listeners registered at that time;
\* the handler registers its listeners after the generation.
ClientCancel ==
    /\ req.pc \in {"await", "body", "quota", "stream"}
    /\ req.path = "stream"
    /\ ~req.cancelled
    /\ req' = [req EXCEPT !.cancelled = TRUE, !.aborted = req.listening]
    /\ UNCHANGED <<now, usageDoc, userDoc, inc, nInc, horizon, lastCall,
                   keys, nReq, reply, aiLogs>>

\* The next round of the loop: if (aborted) break; res.write(c + ' ').
ReqStreamWrite ==
    /\ req.pc = "stream"
    /\ ~req.aborted
    /\ req.written < Len(ClausesOf(req.result))
    /\ req' = [req EXCEPT !.written = @ + 1]
    /\ UNCHANGED <<now, usageDoc, userDoc, inc, nInc, horizon, lastCall,
                   keys, nReq, reply, aiLogs>>

\* The loop is over, by its break or with the last clause written:
\* if (!aborted) the trailer is written and the response ended.
\* processMessageStream records no usage.
ReqStreamEnd ==
    /\ req.pc = "stream"
    /\ req.aborted \/ req.written = Len(ClausesOf(req.result))
    /\ req' = IF req.aborted
              THEN [req EXCEPT !.pc = "CANCELLED"]
              ELSE [req EXCEPT !.pc = "RESPOND", !.trailer = TRUE]
    /\ UNCHANGED <<now, usageDoc, userDoc, inc, nInc, horizon, lastCall,
                   keys, nReq, reply, aiLogs>>

\* The positions at which the handler has returned: the terminal states,
\* and the return of processMessageStream after its loop was broken.
Ended == Terminal \cup {"CANCELLED"}

\* The request is over.
ReqClose ==
    /\ req.pc \in Ended
    /\ req' = NoReq
    /\ UNCHANGED <<now, usageDoc, userDoc, inc, nInc, horizon, lastCall,
                   keys, nReq, reply, aiLogs>>

\* One request of a user in any of the initial states, with its background
\* increment; any configuration of API keys.  voiceChat is read by
\* processMessage alone.
InitReq == \E s \in InitStates, k \in SUBSET Providers : InitWith(s, k)

NextReq ==
    \/ NearMidnight /\ Tick(TickMs)
    \/ \E path \in Paths, tierLevel \in ReqTiers, mode \in Modes,
          voiceChat \in BOOLEAN, hasAttachments \in BOOLEAN :
           /\ nReq = 0
           /\ path = "stream" => ~voiceChat
           /\ ReqStart(path, tierLevel, mode, voiceChat, hasAttachments)
    \/ \E failUsage \in BOOLEAN, failUser \in BOOLEAN :
           ReqCheck(failUsage, failUser)
    \/ ReqInvoke
    \/ ReqHeaders
    \/ \E outcome \in Outcomes : ReqResolve(outcome)
    \/ ReqTimeout
    \/ TimerLapse
    \/ ReqChainEnd
    \/ \E failUsage \in BOOLEAN : ReqQuota(failUsage)
    \/ ReqRespond
    \/ \E fail \in BOOLEAN : LogAppend(fail)
    \/ ReqStreamOpen
    \/ ReqStreamWrite
    \/ ReqStreamEnd
    \/ ReqClose
    \/ \E i \in Slots, fail \in BOOLEAN : IncGetUsage(i, fail)
    \/ \E i \in Slots, fail \in BOOLEAN : IncGetUser(i, fail)
    \/ \E i \in Slots, fail \in BOOLEAN : IncCreateUser(i, fail)
    \/ \E i \in Slots, fail \in BOOLEAN : IncWrite(i, fail)
    \/ Return

SpecReq == InitReq /\ [][NextReq]_vars

\* One request on the path of processMessage with or without the fast
\* flag, of a user whose trial is running; any configuration of API keys,
\* no store failure.
InitChain == \E k \in SUBSET Providers : InitWith(NewUser, k)

NextChain ==
    \/ \E tierLevel \in ReqTiers, mode \in Modes, hasAttachments \in BOOLEAN,
          fast \in BOOLEAN :
           /\ nReq = 0
           /\ ReqArrives("json", tierLevel, mode, FALSE, hasAttachments, fast,
                         "none")
    \/ ReqCheck(FALSE, FALSE)
    \/ ReqInvoke
    \/ ReqHeaders
    \/ \E outcome \in Outcomes : ReqResolve(outcome)
    \/ ReqTimeout
    \/ TimerLapse
    \/ ReqChainEnd
    \/ ReqQuota(FALSE)
    \/ ReqRespond
    \/ LogAppend(FALSE)
    \/ ReqClose
    \/ \E i \in Slots : IncGetUsage(i, FALSE)
    \/ \E i \in Slots : IncGetUser(i, FALSE)
    \/ \E i \in Slots : IncCreateUser(i, FALSE)
    \/ \E i \in Slots : IncWrite(i, FALSE)
    \/ Return

SpecChain == InitChain /\ [][NextChain]_vars

\* One request on the path of processMessage, with any tierLevel in its
\* body, of a user in any of the initial states: the stored account is
\* absent or has tier 'free'.  No store failure.
InitTier == \E s \in InitStates : InitFrom(s)

NextTier == NextChain

SpecTier == InitTier /\ [][NextTier]_vars

\* verifyOTP: users/{uid}.set({ageVerified: true}, merge) creates the
\* account document when there is none and leaves its other fields alone.
verifyOTP ==
    /\ lastCall = NoCall
    /\ userDoc' = IF userDoc.exists THEN userDoc
                  ELSE [NoUserDoc EXCEPT !.exists = TRUE]
    /\ UNCHANGED <<now, usageDoc, inc, nInc, horizon, lastCall, reqVars>>

\* A new user whose first message is counted at time 0, before or after an
\* OTP verification; the days pass only once that message is counted.  No
\* store failure, the increments one after another.
InitOtp == InitFrom([NewUser EXCEPT !.until = (durationDays + 2) * DayMs])

NextOtp ==
    \/ verifyOTP
    \/ usageDoc.exists /\ NextMidnight
    \/ \E tier \in Tiers : Check(tier, FALSE, FALSE)
    \/ nInc < MaxIncrements /\ IncStart(1)
    \/ IncGetUsage(1, FALSE)
    \/ IncGetUser(1, FALSE)
    \/ IncCreateUser(1, FALSE)
    \/ IncWrite(1, FALSE)
    \/ Return

SpecOtp == InitOtp /\ [][NextOtp]_vars

\* One streamed request that its client may cancel at any await of the
\* handler; the user's trial is running, any configuration of API keys.
InitStream == \E k \in SUBSET Providers : InitWith(NewUser, k)

NextStream ==
    \/ \E tierLevel \in ReqTiers, mode \in Modes, hasAttachments \in BOOLEAN :
           /\ nReq = 0
           /\ ReqStart("stream", tierLevel, mode, FALSE, hasAttachments)
    \/ ClientCancel
    \/ ReqInvoke
    \/ ReqHeaders
    \/ \E outcome \in Outcomes : ReqResolve(outcome)
    \/ ReqTimeout
    \/ TimerLapse
    \/ ReqChainEnd
    \/ \E failUsage \in BOOLEAN : ReqQuota(failUsage)
    \/ ReqStreamOpen
    \/ ReqStreamWrite
    \/ ReqStreamEnd
    \/ ReqClose

SpecStream == InitStream /\ [][NextStream]_vars

\* One request whose message an intent handler may take, on the path of
\* processMessage; the store may fail at every write.  Every step of the
\* request is a continuation the event loop runs once it is ready, hence
\* the weak fairness of the steps.
InitIntent == \E s \in InitStates, k \in SUBSET {"gemini"} : InitWith(s, k)

NextIntent ==
    \/ \E tierLevel \in ReqTiers, voiceChat \in BOOLEAN, intent \in Intents :
           /\ nReq = 0
           /\ ReqArrives("json", tierLevel, "general", voiceChat, FALSE,
                         FALSE, intent)
    \/ \E failUsage \in BOOLEAN, failUser \in BOOLEAN :
           ReqCheck(failUsage, failUser)
    \/ ReqIntentExtract
    \/ \E outcome \in Outcomes : ReqIntentExtracted(outcome)
    \/ \E fail \in BOOLEAN : ReqIntentStore(fail)
    \/ ReqInvoke
    \/ \E outcome \in Outcomes : ReqResolve(outcome)
    \/ ReqChainEnd
    \/ \E failUsage \in BOOLEAN : ReqQuota(failUsage)
    \/ ReqRespond
    \/ LogAppend(FALSE)
    \/ ReqClose
    \/ \E i \in Slots : IncGetUsage(i, FALSE)
    \/ \E i \in Slots : IncGetUser(i, FALSE)
    \/ \E i \in Slots : IncCreateUser(i, FALSE)
    \/ \E i \in Slots : IncWrite(i, FALSE)
    \/ Return

SpecIntent == InitIntent /\ [][NextIntent]_vars /\ WF_vars(NextIntent)

\* checkMessageLimit on the stored states around its thresholds, at noon
\* of the ninth day: the total at or one below its cap, today's count one
\* below, at or one above its cap, the last message half a cooldown or a
\* whole cooldown ago, the account created on day one or on day seven.
NoonMs == 8 * DayMs + DayMs \div 2

InitOrder ==
    \E total \in {totalMessagesCap - 1, totalMessagesCap},
       today \in {dailyMessagesCap - 1, dailyMessagesCap,
                  dailyMessagesCap + 1},
       ago \in {TickMs, 2 * TickMs},
       created \in {0, 6 * DayMs} :
        InitFrom([now |-> NoonMs, until |-> NoonMs,
                  usageDoc |-> [exists |-> TRUE, totalMessages |-> total,
                                todayMessages |-> today,
                                lastMessageAt |-> NoonMs - ago,
                                dailyResetAt |-> 9 * DayMs],
                  userDoc |-> InitializedUserDoc(created)])

NextOrder ==
    \/ \E tier \in Tiers : Check(tier, FALSE, FALSE)
    \/ Return

SpecOrder == InitOrder /\ [][NextOrder]_vars

\* One user's increments one after another, no store failure: a new user on
\* the first day of the trial.
InitSeq == InitFrom(NewUser)

NextSeq ==
    \/ NearMidnight /\ Tick(TickMs)
    \/ NextMidnight
    \/ \E tier \in Tiers : Check(tier, FALSE, FALSE)
    \/ nInc <= totalMessagesCap /\ IncStart(1)
    \/ IncGetUsage(1, FALSE)
    \/ IncGetUser(1, FALSE)
    \/ IncCreateUser(1, FALSE)
    \/ IncWrite(1, FALSE)
    \/ Return

SpecSeq == InitSeq /\ [][NextSeq]_vars

\* A new user's messages to processMessage one after another on the free
\* tier: a request starts when the one before it is over, its increment has
\* completed, and more than the cooldown has passed since the last recorded
\* message; every provider answers with text and the store does not fail.
Quiet ==
    /\ req.pc = "idle"
    /\ lastCall = NoCall
    /\ \A i \in Slots : inc[i].pc = "idle"

CooldownOver ==
    \/ usageDoc.lastMessageAt = Null
    \/ now - usageDoc.lastMessageAt > cooldownSeconds * SecondMs

InitE2E == InitFrom(NewUser)

NextE2E ==
    \/ Quiet /\ ~CooldownOver /\ Tick(3 * TickMs)
    \/ \E tierLevel \in {"", "free"}, hasAttachments \in BOOLEAN :
           /\ Quiet
           /\ CooldownOver
           /\ nReq <= dailyMessagesCap
           /\ ReqStart("json", tierLevel, "general", FALSE, hasAttachments)
    \/ ReqCheck(FALSE, FALSE)
    \/ ReqInvoke
    \/ ReqResolve("text")
    \/ ReqChainEnd
    \/ ReqQuota(FALSE)
    \/ ReqRespond
    \/ LogAppend(FALSE)
    \/ ReqClose
    \/ \E i \in Slots : IncGetUsage(i, FALSE)
    \/ \E i \in Slots : IncGetUser(i, FALSE)
    \/ \E i \in Slots : IncCreateUser(i, FALSE)
    \/ \E i \in Slots : IncWrite(i, FALSE)
    \/ Return

SpecE2E == InitE2E /\ [][NextE2E]_vars

\* Requests of one free-tier user that do not overlap and never carry the
\* voice chat flag, on either path and in either mode: a request starts
\* when the one before it is over and its increment has completed; a
\* provider answers with text or with nothing, and the store does not
\* fail.  The user is new, or one message below both caps on the fourth
\* day.
InitQuiet ==
    \E s \in {i \in InitStates : i.now < durationDays * DayMs} : InitFrom(s)

NextQuiet ==
    \/ Quiet /\ ~CooldownOver /\ Tick(3 * TickMs)
    \/ Quiet /\ NextMidnight
    \/ \E path \in Paths, tierLevel \in {"", "free"}, mode \in Modes :
           /\ Quiet
           /\ nReq <= dailyMessagesCap + 1
           /\ ReqStart(path, tierLevel, mode, FALSE, FALSE)
    \/ ReqCheck(FALSE, FALSE)
    \/ ReqInvoke
    \/ ReqHeaders
    \/ \E outcome \in {"text", "empty"} : ReqResolve(outcome)
    \/ ReqChainEnd
    \/ ReqQuota(FALSE)
    \/ ReqRespond
    \/ ReqStreamOpen
    \/ ReqStreamWrite
    \/ ReqStreamEnd
    \/ LogAppend(FALSE)
    \/ ReqClose
    \/ \E i \in Slots : IncGetUsage(i, FALSE)
    \/ \E i \in Slots : IncGetUser(i, FALSE)
    \/ \E i \in Slots : IncCreateUser(i, FALSE)
    \/ \E i \in Slots : IncWrite(i, FALSE)
    \/ Return

SpecQuiet == InitQuiet /\ [][NextQuiet]_vars

\* The caller of checkMessageLimit holds its decision while the clock
\* advances by d, once.
Wait(d) ==
    /\ lastCall.op = "check"
    /\ now = lastCall.at
    /\ d > 0
    /\ now + d <= horizon
    /\ now' = now + d
    /\ UNCHANGED <<usageDoc, userDoc, inc, nInc, horizon, lastCall, reqVars>>

\* The caller calls checkMessageLimit(uid, tier) again with the same tier.
CheckAgain(failUsage, failUser) ==
    /\ lastCall.op = "check"
    /\ lastCall' = [op |-> "checkAgain", tier |-> lastCall.tier,
                    first |-> lastCall, at |-> now,
                    failUsage |-> failUsage, failUser |-> failUser,
                    decision |-> checkMessageLimit(usageDoc, userDoc,
                                                   lastCall.tier, now,
                                                   failUsage, failUser)]
    /\ UNCHANGED <<now, usageDoc, userDoc, inc, nInc, horizon, reqVars>>

\* Two calls of checkMessageLimit with no write between them, after any
\* increments of the user one after another.
NextTwice ==
    \/ NearMidnight /\ Tick(TickMs)
    \/ NextMidnight
    \/ \E tier \in Tiers, failUsage \in BOOLEAN, failUser \in BOOLEAN :
           Check(tier, failUsage, failUser)
    \/ NearMidnight /\ Wait(TickMs)
    \/ Wait(getNextDayStart(now) - now)
    \/ \E failUsage \in BOOLEAN, failUser \in BOOLEAN :
           CheckAgain(failUsage, failUser)
    \/ nInc < MaxIncrements /\ IncStart(1)
    \/ IncGetUsage(1, FALSE)
    \/ IncGetUser(1, FALSE)
    \/ IncCreateUser(1, FALSE)
    \/ IncWrite(1, FALSE)
    \/ Return

SpecTwice == Init /\ [][NextTwice]_vars

\* Requests of a new free-tier user to processMessage, each answered with
\* text, the background increment of one still running while the next is
\* served; no store failure.
InitOverlap == InitFrom(NewUser)

NextOverlap ==
    \/ NearMidnight /\ Tick(TickMs)
    \/ nReq < MaxIncrements
         /\ ReqStart("json", "free", "general", FALSE, FALSE)
    \/ ReqCheck(FALSE, FALSE)
    \/ ReqInvoke
    \/ ReqResolve("text")
    \/ ReqChainEnd
    \/ ReqQuota(FALSE)
    \/ ReqRespond
    \/ LogAppend(FALSE)
    \/ ReqClose
    \/ \E i \in Slots : IncGetUsage(i, FALSE)
    \/ \E i \in Slots : IncGetUser(i, FALSE)
    \/ \E i \in Slots : IncCreateUser(i, FALSE)
    \/ \E i \in Slots : IncWrite(i, FALSE)
    \/ Return

SpecOverlap == InitOverlap /\ [][NextOverlap]_vars

\* Two requests of one free-tier user to processMessage, each answered
\* with text, the second served while the background increment of the
\* first may still be running; the user is new, or one message below both
\* caps on the fourth day.  No store failure.
InitRace ==
    \E s \in {i \in InitStates : i.now < durationDays * DayMs} : InitFrom(s)

NextRace == NextOverlap

SpecRace == InitRace /\ [][NextRace]_vars

\* ------------------------------------------------- shortenToTwoSentences
\* A text is a sequence of characters, each a string; "danda" stands for
\* the Devanagari full stop.
Whitespace == {" ", "\n"}

Terminators == {".", "!", "?", "danda"}

RECURSIVE TrimStart(_)
TrimStart(t) ==
    IF t # <<>> /\ Head(t) \in Whitespace THEN TrimStart(Tail(t)) ELSE t

RECURSIVE TrimEnd(_)
TrimEnd(t) ==
    IF t # <<>> /\ t[Len(t)] \in Whitespace
    THEN TrimEnd(SubSeq(t, 1, Len(t) - 1)) ELSE t

\* String.prototype.trim
Trim(t) == TrimEnd(TrimStart(t))

\* The end of the run of whitespace that starts at i.
RECURSIVE RunEnd(_, _)
RunEnd(t, i) ==
    IF i < Len(t) /\ t[i + 1] \in Whitespace THEN RunEnd(t, i + 1) ELSE i

\* t.split(/(?<=[\.\!\?।])\s+/): a separator is a run of whitespace
\* that starts right after a terminator.  cur is the part being read from
\* position i on, parts the parts before it.
RECURSIVE SplitFrom(_, _, _, _)
SplitFrom(t, i, cur, parts) ==
    IF i > Len(t) THEN Append(parts, cur)
    ELSE IF /\ t[i] \in Whitespace
            /\ i > 1
            /\ t[i - 1] \in Terminators
         THEN SplitFrom(t, RunEnd(t, i) + 1, <<>>, Append(parts, cur))
         ELSE SplitFrom(t, i + 1, Append(cur, t[i]), parts)

Split(t) == SplitFrom(t, 1, <<>>, <<>>)

\* .filter(Boolean)
FilterNonEmpty(parts) == SelectSeq(parts, LAMBDA part : part # <<>>)

\* parts.join(' ')
RECURSIVE Join(_)
Join(parts) ==
    IF parts = <<>> THEN <<>>
    ELSE IF Len(parts) = 1 THEN parts[1]
    ELSE parts[1] \o <<" ">> \o Join(Tail(parts))

\* parts.slice(0, 2)
FirstTwo(parts) ==
    SubSeq(parts, 1, IF Len(parts) < 2 THEN Len(parts) ELSE 2)

\* The length below which the first two parts give way to the first.
MinTwoLength == 20

\* shortenToTwoSentences with the test of line 1218 put to the first part.
shortenToTwoSentencesFirstPart(text) ==
    LET t == Trim(text)
    IN  IF t = <<>> THEN t
        ELSE LET parts == FilterNonEmpty(Split(t))
             IN  IF Len(parts) > 0 /\ Len(parts[1]) < MinTwoLength
                 THEN parts[1] ELSE Join(FirstTwo(parts))

\* shortenToTwoSentences without the test of line 1218.
shortenToTwoSentencesNoMinimum(text) ==
    LET t == Trim(text)
    IN  IF t = <<>> THEN t
        ELSE Join(FirstTwo(FilterNonEmpty(Split(t))))

shortenToTwoSentences(text) ==
    LET t == Trim(text)
    IN  IF t = <<>> THEN t
        ELSE LET parts == FilterNonEmpty(Split(t))
                 firstTwo == Join(FirstTwo(parts))
             IN  IF Len(firstTwo) < MinTwoLength /\ Len(parts) > 0
                 THEN parts[1] ELSE firstTwo

\* The texts handed to the function: up to MaxClauses clauses, clause k made
\* of a letter repeated and a terminator, with one or two characters of
\* whitespace between clauses, the last clause without terminator, with it,
\* or with it and whitespace after it; and some texts besides.
MaxClauses == 3

ClauseLens == {1, 8, 9, 19}

Letter(k) == <<"A", "B", "C", "D">>[((k - 1) % 4) + 1]

Endings == {"open", "closed", "trailing"}

Shapes ==
    UNION { [lens : [1..n -> ClauseLens], term : Terminators,
             sep : {<<" ">>, <<" ", "\n">>}, ending : Endings]
            : n \in 1..MaxClauses }

\* Clause k of a text of shape sh, as written in the text.
Clause(sh, k) ==
    [j \in 1..sh.lens[k] |-> Letter(k)]
      \o (IF k = Len(sh.lens) /\ sh.ending = "open"
          THEN <<>> ELSE <<sh.term>>)

RECURSIVE RenderFrom(_, _)
RenderFrom(sh, k) ==
    IF k = Len(sh.lens)
    THEN Clause(sh, k) \o (IF sh.ending = "trailing" THEN <<" ">> ELSE <<>>)
    ELSE Clause(sh, k) \o sh.sep \o RenderFrom(sh, k + 1)

Render(sh) == RenderFrom(sh, 1)

OtherTexts ==
    { <<>>, <<" ">>, <<"H", "i", ".", " ">>, <<" ", "H", "i", "!">>,
      <<"3", ".", "5", " ", "k", "m", ".", " ", "O", "k", ".">>,
      <<"A", ".", "B", ".", " ", "C", ".">> }

Texts == {Render(sh) : sh \in Shapes} \cup OtherTexts

\* result = shortenToTwoSentences(result)
Shorten ==
    /\ ~reply.done
    /\ reply' = [reply EXCEPT !.short = shortenToTwoSentences(reply.text),
                              !.done = TRUE]
    /\ UNCHANGED <<now, usageDoc, userDoc, inc, nInc, horizon, lastCall,
                   keys, req, nReq, aiLogs>>

\* The function applied once to each of the texts.
InitShorten == \E t \in Texts : InitText(NewUser, Providers, t)

NextShorten == Shorten

SpecShorten == InitShorten /\ [][NextShorten]_vars

\* ----------------------------------------------------------------- claims
IsCheck == lastCall.op = "check"

\* The tiers checkMessageLimit handles with the free-tier rules.
FreeRules(tier) == tier \notin {"tier1", "tier2", "tier3"}

\* todayMessages as it counts at time now
TodayNow == IF now >= usageDoc.dailyResetAt THEN 0 ELSE usageDoc.todayMessages

\* C1: the stored totalMessages never decreases, whatever the interleaving
\* of check, increment and remainingQuota, failed reads included.
C1_TotalNeverDecreases ==
    [][usageDoc'.totalMessages >= usageDoc.totalMessages]_vars

\* C2: for a fresh free-tier user inside the trial, after exactly
\* totalMessagesCap completed increments check() denies with
\* TotalCapReached, and not before; the increments are all recorded.
C2_TotalCapAfterFiftyIncrements ==
    /\ (inc[1].pc = "idle") => (usageDoc.totalMessages = nInc)
    /\ (IsCheck /\ FreeRules(lastCall.tier) /\ inc[1].pc = "idle")
         => /\ (nInc = totalMessagesCap)
                 => /\ ~lastCall.decision.allowed
                    /\ lastCall.decision.reason = "TotalCapReached"
            /\ (nInc < totalMessagesCap)
                 => lastCall.decision.reason # "TotalCapReached"

C2_Witness ==
    /\ IsCheck
    /\ lastCall.tier = "free"
    /\ nInc = totalMessagesCap
    /\ inc[1].pc = "idle"
    /\ lastCall.decision.reason = "TotalCapReached"

\* C3: a new free-tier user sends messages one after another, more than
\* cooldownSeconds apart within one day, each increment completing before
\* the next request: the 15th request succeeds and its response reports 0
\* messages remaining today; the 16th is denied with DailyCapReached and
\* remainingTotal = 35.
C3_FifteenthLeavesZeroSixteenthDenied ==
    /\ (nReq = dailyMessagesCap /\ req.pc \in Terminal)
         => /\ req.pc = "RESPOND"
            /\ req.quota.todayRemaining = 0
    /\ (nReq = dailyMessagesCap + 1 /\ req.pc \in Terminal)
         => /\ req.pc = "DENY"
            /\ req.limitCheck.reason = "DailyCapReached"
            /\ req.limitCheck.remainingTotal
                 = totalMessagesCap - dailyMessagesCap

\* C4: once now has reached the stored dailyResetAt, check() evaluates
\* todayMessages as 0 and leaves the stored total as it is, and the next
\* increment() stores todayMessages = 1 and the following midnight as
\* dailyResetAt; an increment whose usage read succeeded and that no other
\* write overlapped adds exactly 1 to totalMessages.
C4_ResetOnCrossing ==
    /\ (IsCheck /\ ~lastCall.failUsage /\ usageDoc.exists
          /\ now >= usageDoc.dailyResetAt)
         => /\ lastCall.decision.usage.todayMessages = 0
            /\ lastCall.decision.usage.totalMessages = usageDoc.totalMessages
    /\ (lastCall.op = "increment" /\ lastCall.before.exists
          /\ now >= lastCall.before.dailyResetAt)
         => /\ usageDoc.todayMessages = 1
            /\ usageDoc.dailyResetAt = getNextDayStart(now)
            /\ usageDoc.dailyResetAt > now
            /\ (~lastCall.readFailed /\ ~lastCall.overlapped)
                 => usageDoc.totalMessages
                      = lastCall.before.totalMessages + 1

C4_Witness ==
    /\ lastCall.op = "increment"
    /\ ~lastCall.readFailed
    /\ ~lastCall.overlapped
    /\ lastCall.before.exists
    /\ now >= lastCall.before.dailyResetAt
    /\ lastCall.before.todayMessages > 1
    /\ usageDoc.todayMessages = 1
    /\ usageDoc.totalMessages = lastCall.before.totalMessages + 1

\* C5: below both caps and inside the trial, a check() less than
\* cooldownSeconds after the recorded lastMessageAt denies with
\* CooldownActive and waitSeconds = ceil(cooldownSeconds - elapsed) > 0.
C5_CooldownDenies ==
    (/\ IsCheck
     /\ FreeRules(lastCall.tier)
     /\ ~lastCall.failUsage
     /\ lastCall.decision.reason # "FreeTierExpired"
     /\ usageDoc.exists
     /\ usageDoc.totalMessages < totalMessagesCap
     /\ TodayNow < dailyMessagesCap
     /\ usageDoc.lastMessageAt # Null
     /\ now - usageDoc.lastMessageAt < cooldownSeconds * SecondMs)
    => LET remainingMs == cooldownSeconds * SecondMs
                            - (now - usageDoc.lastMessageAt)
           wait == lastCall.decision.waitSeconds
       IN  /\ ~lastCall.decision.allowed
           /\ lastCall.decision.reason = "CooldownActive"
           /\ wait > 0
           /\ wait * SecondMs >= remainingMs
           /\ (wait - 1) * SecondMs < remainingMs

C5_Witness ==
    /\ IsCheck
    /\ lastCall.tier = "free"
    /\ lastCall.decision.reason = "CooldownActive"
    /\ now - usageDoc.lastMessageAt = TickMs
    /\ lastCall.decision.waitSeconds = 2

\* The account is older than the trial at time now.
TrialOver ==
    /\ userDoc.exists
    /\ userDoc.hasCreatedAt
    /\ now - userDoc.createdAt > durationDays * DayMs

\* C6: for a free-tier account created more than durationDays ago check()
\* denies with FreeTierExpired, remaining 0/0 and daysExpired =
\* floor(ageDays - durationDays) in the decision; an account aged
\* durationDays or less is not denied for expiry.
C6_ExpiredDecision ==
    (IsCheck /\ FreeRules(lastCall.tier) /\ ~lastCall.failUser)
    => /\ TrialOver
            => /\ ~lastCall.decision.allowed
               /\ lastCall.decision.reason = "FreeTierExpired"
               /\ lastCall.decision.remainingTotal = 0
               /\ lastCall.decision.remainingToday = 0
               /\ lastCall.decision.daysExpired
                    = (now - userDoc.createdAt - durationDays * DayMs)
                         \div DayMs
       /\ ~TrialOver => lastCall.decision.reason # "FreeTierExpired"

\* C7: for tier1, tier2 and tier3, which have no daily cap configured,
\* check() allows whatever the counters, lastMessageAt and the account age.
C7_PaidNeverDenied ==
    (/\ IsCheck
     /\ lastCall.tier \in {"tier1", "tier2", "tier3"}
     /\ PaidDailyMessages(lastCall.tier) <= 0)
    => /\ lastCall.decision.allowed
       /\ lastCall.decision.reason = "None"

C7_Witness ==
    /\ IsCheck
    /\ lastCall.tier = "tier1"
    /\ ~lastCall.failUsage
    /\ usageDoc.totalMessages >= totalMessagesCap
    /\ now - usageDoc.lastMessageAt < cooldownSeconds * SecondMs
    /\ lastCall.decision.allowed

\* C8: a request in night mode whose tier is neither tier2 nor tier3 calls
\* no provider on either path, processMessage or processMessageStream, and
\* the text of its response is the fixed refusal.
C8_NightBelowTier2CallsNoProvider ==
    (/\ req.pc # "idle"
     /\ req.mode = "night"
     /\ req.tier \notin NightTiers)
    => /\ req.calls = <<>>
       /\ req.pc \in {"RESPOND", "FAIL"} => req.result = NightRefusal

\* C9: the chain of configured providers stops at the first one that
\* returns a non-empty text: a provider is called only when every provider
\* called before it threw or returned nothing, the text a provider returned
\* is the result, and after a first provider that threw or returned nothing
\* and a second that returned text no third provider is called.
C9_ChainStopsAtFirstText ==
    req.pc # "idle" =>
      /\ \A k \in 1..Len(req.outs) :
            /\ k < Len(req.calls)
                 => ProviderReturn(req.calls[k], req.outs[k]) = ""
            /\ req.outs[k] = "text" => req.result = TextOf(req.calls[k])
      /\ (/\ Len(req.outs) >= 2
          /\ req.outs[1] \in {"throw", "empty"}
          /\ req.outs[2] = "text")
         => /\ Len(req.calls) = 2
            /\ req.result = TextOf(req.calls[2])

C9_Witness ==
    /\ req.pc = "RESPOND"
    /\ req.path = "json"
    /\ keys = Providers
    /\ req.calls = <<"gemini", "openai">>
    /\ req.outs = <<"throw", "text">>
    /\ req.result = TextOf("openai")

\* The first two clauses of a text of shape sh joined by one space.
TwoClauses(sh) == Clause(sh, 1) \o <<" ">> \o Clause(sh, 2)

HiText == <<"H", "i", ".", " ">>

\* The texts of n or more clauses, each with its first two clauses joined
\* and its first clause.
Shaped(n) ==
    { [text |-> Render(sh), two |-> TwoClauses(sh), one |-> Clause(sh, 1)]
      : sh \in {x \in Shapes : Len(x.lens) >= n} }

ThreeClauseTexts == Shaped(3)

TwoClauseTexts == Shaped(2)

\* C10 as stated: a text of three or more clauses is shortened to its first
\* two clauses joined by one space ("A. B. C." gives "A. B."), and "Hi. "
\* gives "Hi.".
C10_FirstTwoClauses ==
    reply.done =>
      /\ \A x \in ThreeClauseTexts :
            reply.text = x.text => reply.short = x.two
      /\ reply.text = HiText => reply.short = <<"H", "i", ".">>

\* C10: a text of two or more clauses is shortened to its first two clauses
\* joined by one space when that joined text has at least 20 characters, and
\* to its first clause alone when it has fewer ("A. B. C." gives "A.");
\* "Hi. " gives "Hi.".
C10_FirstTwoClausesIfLong ==
    reply.done =>
      /\ \A x \in TwoClauseTexts :
            reply.text = x.text
              => reply.short = IF Len(x.two) >= MinTwoLength
                               THEN x.two ELSE x.one
      /\ reply.text = HiText => reply.short = <<"H", "i", ".">>

C10_Witness ==
    /\ reply.done
    /\ reply.text = <<"A", ".", " ", "B", ".", " ", "C", ".">>
    /\ reply.short = <<"A", ".">>

\* C11 as stated: the first clause alone is returned exactly when the first
\* clause is shorter than 20 characters, the first two clauses joined by a
\* space otherwise; the length of the first clause decides.
C11_FirstClauseDecides ==
    reply.done =>
      \A x \in TwoClauseTexts :
         reply.text = x.text
           => reply.short = IF Len(x.one) < MinTwoLength
                            THEN x.one ELSE x.two

\* C11: the first clause alone is returned exactly when the first two
\* clauses joined by a space are shorter than 20 characters, and the two
\* joined exactly when they are not; the length of the two joined decides,
\* whatever the length of the first clause.
C11_JoinedLengthDecides ==
    reply.done =>
      \A x \in TwoClauseTexts :
         reply.text = x.text
           => /\ reply.short = x.one <=> Len(x.two) < MinTwoLength
              /\ reply.short = x.two <=> Len(x.two) >= MinTwoLength

C11_Witness ==
    /\ reply.done
    /\ \E x \in TwoClauseTexts :
          /\ reply.text = x.text
          /\ Len(x.one) < MinTwoLength
          /\ Len(x.two) >= MinTwoLength
          /\ reply.short = x.two

C13_ReadsLeaveStore ==
    [][/\ (lastCall = NoCall /\ lastCall'.op \in {"check", "quota"})
            => (usageDoc' = usageDoc /\ userDoc' = userDoc)
       /\ (usageDoc' # usageDoc) => lastCall'.op = "increment"]_vars

C13_Witness ==
    /\ lastCall.op = "quota"
    /\ lastCall.tier = "free"
    /\ ~lastCall.failUsage
    /\ usageDoc.exists
    /\ now >= usageDoc.dailyResetAt
    /\ usageDoc.todayMessages > 0
    /\ lastCall.quota.todayRemaining = dailyMessagesCap

C16_CreatedAtWrittenOnce ==
    [][userDoc.exists
         => (userDoc'.exists /\ userDoc'.createdAt = userDoc.createdAt)]_vars

\* C17: every write of the usage record stores as dailyResetAt a local
\* midnight strictly after the time of the write, and one that is not before
\* the dailyResetAt it replaces, whatever the interleaving of increments.
C17_ResetNeverBackward ==
    [][(usageDoc' # usageDoc)
         => /\ usageDoc'.dailyResetAt % DayMs = 0
            /\ usageDoc'.dailyResetAt > now'
            /\ usageDoc.exists
                 => usageDoc'.dailyResetAt >= usageDoc.dailyResetAt]_vars

\* An increment that read the usage record before midnight has written
\* after midnight, over the record of an increment that had advanced
\* dailyResetAt.
C17_Witness ==
    /\ lastCall.op = "increment"
    /\ ~lastCall.readFailed
    /\ lastCall.overlapped
    /\ lastCall.readResetAt <= now
    /\ lastCall.readResetAt < lastCall.before.dailyResetAt
    /\ usageDoc.dailyResetAt = lastCall.before.dailyResetAt

\* C18: when the background increments of a user's requests overlap, no
\* completed increment is lost: once they have all completed, the stored
\* totalMessages has grown by at least their number.
C18_NoIncrementLost ==
    (\A i \in Slots : inc[i].pc = "idle")
    => usageDoc.totalMessages >= nInc

\* C19 as stated: when the usage read or the account read of check() fails,
\* check() does not deny.
C19_StoreFailureNeverDenies ==
    (IsCheck /\ (lastCall.failUsage \/ lastCall.failUser))
    => lastCall.decision.allowed

\* C19: a failed usage read makes check() evaluate a zeroed usage record, so
\* that it denies for no cap and no cooldown; a failed account read makes it
\* take the trial as not expired; with both reads failing a free-tier
\* request is allowed, with all but one message of each cap remaining.
C19_FailedReadsFailOpen ==
    (IsCheck /\ FreeRules(lastCall.tier))
    => /\ lastCall.failUsage
            => /\ lastCall.decision.usage = ZeroUsage(now)
               /\ lastCall.decision.reason \in {"None", "FreeTierExpired"}
       /\ lastCall.failUser
            => lastCall.decision.reason # "FreeTierExpired"
       /\ (lastCall.failUsage /\ lastCall.failUser)
            => /\ lastCall.decision.allowed
               /\ lastCall.decision.remainingTotal = totalMessagesCap - 1
               /\ lastCall.decision.remainingToday = dailyMessagesCap - 1

C19_Witness ==
    /\ IsCheck
    /\ lastCall.tier = "free"
    /\ lastCall.failUsage
    /\ lastCall.failUser
    /\ TrialOver
    /\ usageDoc.totalMessages > 0
    /\ lastCall.decision.allowed

\* C20: an increment() one of whose store operations failed, the usage read
\* included, does not complete as a successful increment: its caller gets
\* the error.
C20_FailurePropagates ==
    lastCall.op = "increment" => ~lastCall.readFailed

\* C21: every request reaches DENY, FAIL or RESPOND after finitely many
\* steps, the requests an intent handler takes and whose store write fails
\* included.
C21_EveryRequestEnds == (req.pc = "check") ~> (req.pc \in Terminal)

\* C22: a provider is invoked only after the usage limits check, on the
\* path of processMessage and on the streamed path alike, and a request
\* without the voice chat flag whose check denied invokes none.
C22_CheckBeforeProvider ==
    (req.pc # "idle" /\ req.calls # <<>>) =>
        /\ req.checked
        /\ ~req.voiceChat => req.limitCheck.allowed

\* A call of a wrapper with a timer is in flight: its fetch is pending or
\* its response body is being read.
TimedInFlight(r) ==
    r.pc \in {"await", "body"} /\ LastCall(r) \in TimedProviders

\* C23: every provider attempt resolves within a bounded time: while an
\* attempt is in flight, on whatever provider, a timeout is armed for it;
\* an attempt that timed out leaves an empty result with which the chain
\* goes on, and the timeout does not end the request.
C23_EveryAttemptBounded ==
    /\ req.pc \in {"await", "body"} => AttemptTimer(req) = "armed"
    /\ (req.pc = "chain" /\ req.outs # <<>>
           /\ req.outs[Len(req.outs)] = "timeout") =>
          IsEmpty(req.result) /\ req.status = 0

\* C24: the timer of an attempt is pending exactly while the attempt is in
\* flight: armed until the attempt has resolved, the read of the response
\* body included, and not pending any more after it has resolved by any
\* outcome.
C24_TimerPendingIffInFlight ==
    req.pc # "idle" => (req.timer = "armed" <=> TimedInFlight(req))

\* The positions of a request at which a provider call is pending.
InFlight == {"await", "body", "extract"}

\* C25: within one request at most one provider call is in flight: every
\* call made has resolved, except the last one while the request awaits
\* it, so the attempt on the next provider starts after the one before
\* has resolved.
C25_OneCallInFlight ==
    req.pc # "idle" =>
        Len(req.calls) - Len(req.outs) = IF req.pc \in InFlight THEN 1 ELSE 0

\* The second attempt of a chain is in flight, the first has resolved.
C25_Witness ==
    /\ req.pc = "await"
    /\ Len(req.calls) = 2
    /\ Len(req.outs) = 1

\* C26: once the client has cancelled a streamed response, during the
\* generation, before the first clause or between clauses, no clause and
\* no trailer is written any more.
C26_NoWriteAfterCancel ==
    [][(req.pc # "idle" /\ req.cancelled /\ req'.pc # "idle") =>
          (req'.written = req.written /\ req'.trailer = req.trailer)]_vars

\* C27: the usage increment and the append to ai_logs start in the step
\* that sends the response, never before; no step after the response,
\* a failed increment or a failed append included, changes the request's
\* status, text or quota; and a failed write is not started again.
C27_BackgroundWritesAfterResponse ==
    [][/\ (nInc' > nInc \/ aiLogs'.pending > aiLogs.pending) =>
             (req.pc = "send" /\ req'.pc = "RESPOND" /\ req'.status = 200)
       /\ (req.pc = "RESPOND" /\ req'.pc # "idle") =>
             /\ req'.pc = "RESPOND"
             /\ req'.status = req.status
             /\ req'.result = req.result
             /\ req'.quota = req.quota
       /\ aiLogs'.failed > aiLogs.failed =>
             aiLogs'.pending = aiLogs.pending - 1
       /\ (lastCall = NoCall /\ lastCall'.op = "incrementThrew") =>
             /\ nInc' = nInc
             /\ \A i \in Slots : inc'[i].pc # inc[i].pc => inc'[i].pc = "idle"
      ]_vars

\* The response was sent with status 200 and a text; afterwards the
\* increment threw and the append to ai_logs failed, and neither is in
\* flight again.
C27_Witness ==
    /\ req.pc = "RESPOND"
    /\ req.status = 200
    /\ ~IsBlank(req.result)
    /\ lastCall.op = "incrementThrew"
    /\ aiLogs = [pending |-> 0, stored |-> 0, failed |-> 1]
    /\ \A i \in Slots : inc[i].pc = "idle"

\* The head of the general chain: the vision provider for a request with
\* attachments, Gemini otherwise.
HeadOf(r) == IF r.hasAttachments THEN "geminiVision" ELSE "gemini"

\* The providers of chain c whose key is among ks, in the order of c.
Configured(c, ks) ==
    LET has(p) == KeyOf(p) \in ks
    IN  SelectSeq(c, has)

\* The calls made so far are the first providers of chain c.
CallsFollow(r, c) ==
    /\ Len(r.calls) <= Len(c)
    /\ \A i \in 1..Len(r.calls) : r.calls[i] = c[i]

\* C28: in a general mode the providers are called in the order OpenAI,
\* head, Grok when the request has the fast flag, and in the order head,
\* OpenAI, Grok without it, the head being the vision provider for a
\* request with attachments and Gemini otherwise.
C28_FastFlagPutsOpenAIFirst ==
    (req.pc # "idle" /\ req.path = "json" /\ req.mode = "general") =>
        CallsFollow(req, Configured(IF req.fast
                                    THEN <<"openai", HeadOf(req), "grok">>
                                    ELSE <<HeadOf(req), "openai", "grok">>,
                                    keys))

\* The chain of the request has been run to its end.
AfterChain(r) == r.pc \in {"quota", "send", "FAIL", "RESPOND"}

\* Grok has left no text: its key is not configured, or its call returned
\* ''.
GrokLeftNothing(r, ks) ==
    \/ "grok" \notin ks
    \/ r.calls # <<>> /\ r.calls[1] = "grok" /\ r.outs # <<>>
          /\ IsEmpty(ProviderReturn("grok", r.outs[1]))

Called(r, p) == \E i \in 1..Len(r.calls) : r.calls[i] = p

\* A request in night mode of tier 2 or 3 on the path of processMessage.
NightChain(r) ==
    r.pc # "idle" /\ r.path = "json" /\ r.mode = "night"
        /\ r.tier \in NightTiers

\* C29: in night mode for tier2 or tier3 the chain is Grok followed by
\* OpenAI, and OpenAI is attempted if and only if Grok was not configured
\* or returned empty text.
C29_OpenAIIffGrokEmpty ==
    (NightChain(req) /\ AfterChain(req)) =>
        /\ CallsFollow(req, Configured(<<"grok", "openai">>, keys))
        /\ Called(req, "openai") <=> GrokLeftNothing(req, keys)

\* C29 with the key of OpenAI: OpenAI is attempted if and only if its key
\* is configured and Grok was not configured or returned empty text.
C29_OpenAIIffConfiguredAndGrokEmpty ==
    (NightChain(req) /\ AfterChain(req)) =>
        /\ CallsFollow(req, Configured(<<"grok", "openai">>, keys))
        /\ Called(req, "openai") <=>
              ("openai" \in keys /\ GrokLeftNothing(req, keys))

\* Both keys configured, Grok returned '' and OpenAI was called after it.
C29_Witness ==
    /\ NightChain(req) /\ AfterChain(req)
    /\ keys = {"grok", "openai"}
    /\ req.calls = <<"grok", "openai">>
    /\ req.outs[1] = "empty"

\* C30: a provider whose key is not configured is never called, and a
\* request one of whose calls returned a text does not end with status
\* 500 or an empty stream.
C30_UnconfiguredNeverCalled ==
    req.pc # "idle" =>
        /\ \A i \in 1..Len(req.calls) : KeyOf(req.calls[i]) \in keys
        /\ req.pc = "FAIL" => \A i \in 1..Len(req.outs) : req.outs[i] # "text"

\* Two of the three keys are missing; the one provider left returned a
\* text and the request ended in RESPOND.
C30_Witness ==
    /\ req.pc = "RESPOND"
    /\ keys = {"grok"}
    /\ req.mode = "general"
    /\ req.calls = <<"grok">>
    /\ req.outs = <<"text">>
    /\ req.status = 200

\* C31: for a paid tier an allow decision of check() carries
\* remainingTotal = -1, and remainingToday = cap - todayMessages when the
\* tier has a daily cap above 0, else remainingToday = -1.
C31_PaidAllowCarriesRemaining ==
    (IsCheck /\ ~FreeRules(lastCall.tier) /\ lastCall.decision.allowed)
    => /\ lastCall.decision.remainingTotal = Unlimited
       /\ lastCall.decision.remainingToday
            = IF PaidDailyMessages(lastCall.tier) > 0
              THEN PaidDailyMessages(lastCall.tier)
                     - lastCall.decision.usage.todayMessages
              ELSE Unlimited

\* C32: remainingQuota() reports unlimited exactly for the tiers check()
\* treats as paid, and for every tier check() handles with the free rules
\* it reports the free-tier counts max(0, cap - used).
C32_QuotaClassifiesAsCheck ==
    lastCall.op = "quota"
    => LET usage == getUserUsage(usageDoc, now, lastCall.failUsage)
       IN  /\ lastCall.quota.unlimited <=> ~FreeRules(lastCall.tier)
           /\ FreeRules(lastCall.tier)
                => /\ lastCall.quota.totalRemaining
                        = Max(0, totalMessagesCap - usage.totalMessages)
                   /\ lastCall.quota.todayRemaining
                        = Max(0, dailyMessagesCap - usage.todayMessages)

\* C33: for a free-tier user the first reason that applies, in the order
\* FreeTierExpired, TotalCapReached, DailyCapReached, CooldownActive, is
\* the one returned; with both caps reached it is TotalCapReached with
\* remainingTotal 0 and remainingToday max(0, dailyMessagesCap - today),
\* with the daily cap alone DailyCapReached with remainingToday 0 and
\* remainingTotal totalMessagesCap - total.
C33_FirstReasonInOrder ==
    (IsCheck /\ FreeRules(lastCall.tier))
    => LET d == lastCall.decision
           total == usageDoc.totalMessages
           today == TodayNow
           cooling == /\ usageDoc.lastMessageAt # Null
                      /\ now - usageDoc.lastMessageAt
                           < cooldownSeconds * SecondMs
       IN  /\ d.reason =
                 IF TrialOver THEN "FreeTierExpired"
                 ELSE IF total >= totalMessagesCap THEN "TotalCapReached"
                 ELSE IF today >= dailyMessagesCap THEN "DailyCapReached"
                 ELSE IF cooling THEN "CooldownActive"
                 ELSE "None"
           /\ d.reason = "TotalCapReached"
                => /\ d.remainingTotal = 0
                   /\ d.remainingToday = Max(0, dailyMessagesCap - today)
           /\ d.reason = "DailyCapReached"
                => /\ d.remainingToday = 0
                   /\ d.remainingTotal = totalMessagesCap - total

\* Both caps are reached inside the cooldown, the trial is running, and
\* the decision names the total cap.
C33_Witness ==
    /\ IsCheck
    /\ lastCall.tier = "free"
    /\ ~TrialOver
    /\ usageDoc.totalMessages = totalMessagesCap
    /\ usageDoc.todayMessages > dailyMessagesCap
    /\ now - usageDoc.lastMessageAt < cooldownSeconds * SecondMs
    /\ lastCall.decision.reason = "TotalCapReached"
    /\ lastCall.decision.remainingToday = 0

\* C34: for a free-tier user without the voice chat flag whose requests
\* do not overlap and whose store does not fail, the stored counters stay
\* within the caps.
C34_CountersWithinCaps ==
    /\ usageDoc.totalMessages <= totalMessagesCap
    /\ usageDoc.todayMessages <= dailyMessagesCap

\* The total cap is reached and a new day has begun: the request is denied
\* for the total cap although nothing was sent today.
C34_Witness ==
    /\ req.pc = "DENY"
    /\ req.limitCheck.reason = "TotalCapReached"
    /\ usageDoc.totalMessages = totalMessagesCap
    /\ TodayNow = 0

\* The state in which the behaviour began; the horizon tells the initial
\* states apart and no step changes it.
StartOfRun == CHOOSE s \in InitStates : s.until = horizon

\* The requests answered with status 200 since the behaviour began: each
\* started one append to ai_logs.
Answered == aiLogs.pending + aiLogs.stored + aiLogs.failed

\* A request before the one being served was answered.
EarlierAnswered == Answered >= (IF req.pc = "RESPOND" THEN 2 ELSE 1)

\* C35: when the requests of one free-tier user overlap, the requests
\* without the voice chat flag answered within one day still do not
\* exceed dailyMessagesCap, and a second request that arrives within
\* cooldownSeconds of an answered first one is still denied.
C35_OverlapKeepsDailyCapAndCooldown ==
    /\ now < StartOfRun.usageDoc.dailyResetAt
         => StartOfRun.usageDoc.todayMessages + Answered <= dailyMessagesCap
    /\ (/\ req.pc # "idle"
        /\ req.checked
        /\ EarlierAnswered
        /\ now - StartOfRun.now < cooldownSeconds * SecondMs)
         => ~req.limitCheck.allowed

\* The tier stored in the account document, 'free' when there is none.
StoredTier == IF userDoc.exists /\ userDoc.tier # "" THEN userDoc.tier
              ELSE "free"

\* C36: the tier of the usage limits check and of the night mode
\* permission is the stored one: the check decides as it does for the
\* stored tier whatever tierLevel the body carries, and a request in night
\* mode calls a provider only if the stored tier is tier2 or tier3.
C36_StoredTierDecides ==
    [][/\ (req.pc = "check" /\ req'.pc \notin {"check", "idle"})
            => req'.limitCheck.allowed
                 = checkMessageLimit(usageDoc, userDoc, StoredTier, now,
                                     FALSE, FALSE).allowed
       /\ (req.pc = "chain" /\ req'.pc = "await" /\ req.path = "json"
              /\ req.mode = "night")
            => StoredTier \in NightTiers
      ]_vars

\* C37: a request ends in FAIL only after every configured provider of its
\* chain has been attempted exactly once, in the order of the chain: a
\* result of whitespace only makes the chain go on as an empty one does.
C37_FailAfterWholeChain ==
    req.pc = "FAIL" => req.calls = Configured(Blocks(req), keys)

\* C38: once more than durationDays have passed since the first counted
\* message of a user (here counted at time 0), check() denies the free tier
\* with FreeTierExpired, also when the account document was created by the
\* OTP verification before that message.
C38_TrialEndsForEveryUser ==
    (/\ IsCheck
     /\ FreeRules(lastCall.tier)
     /\ usageDoc.exists
     /\ lastCall.at > durationDays * DayMs)
    => /\ ~lastCall.decision.allowed
       /\ lastCall.decision.reason = "FreeTierExpired"

\* C39: in every stored usage record todayMessages <= totalMessages,
\* whatever the sequence and interleaving of increments, failed reads
\* included.
C39_TodayWithinTotal ==
    usageDoc.exists => usageDoc.todayMessages <= usageDoc.totalMessages

\* An increment has written over the write of another one that overlapped
\* it, after a daily reset: the day's count is 1, the total is above it.
C39_Witness ==
    /\ lastCall.op = "increment"
    /\ lastCall.overlapped
    /\ lastCall.before.exists
    /\ usageDoc.todayMessages = 1
    /\ usageDoc.totalMessages > 1

====
